---- MODULE Spec2Model ----
(***************************************************************************)
(* Model of the DeepSix dive-log decoder (src/src/deepsix_parser.c) behind *)
(* the generic decoder contract (src/src/parser.c).                        *)
(*                                                                         *)
(* One decoder instance is modelled.  Its state is the C struct            *)
(* deepsix_parser_t: the base fields data/size, the stored callback, the   *)
(* sample interval and the field cache.  Every contract operation is an    *)
(* operator that maps the instance (and the call's arguments) to the       *)
(* instance after the call plus the call's outputs; the actions apply the  *)
(* operators to inputs drawn from small sets.                              *)
(*                                                                         *)
(* A fresh instance comes from malloc: dc_parser_allocate initialises the  *)
(* base fields only, so the callback, the sample interval and the cache    *)
(* start with whatever the heap held (GarbageMasks, Residues).             *)
(*                                                                         *)
(* The callback and its userdata are stored and passed together; the model *)
(* keeps the callback alone.  Buffer lengths stay far below 2^31, so the   *)
(* unsigned-to-int conversions of base.size and the unsigned products      *)
(* (divetime * 60 <= 3932100) do not wrap.                                 *)
(*                                                                         *)
(* Fixed-point units replace the C doubles:                                *)
(*   depth        millimetres, rounded down                                *)
(*   temperature  thousandths of a degree Celsius                          *)
(*   oxygen       thousandths (permille) of the gas fraction               *)
(***************************************************************************)
EXTENDS Integers, Sequences, FiniteSets

VARIABLES parser, result, decoded, afterScuba

vars == <<parser, result, decoded, afterScuba>>

(***************************************************************************)
(* Bounds of the model.                                                    *)
(***************************************************************************)
\* longest sample body, in bytes, of an input buffer
MaxBodyLen == 9

(***************************************************************************)
(* Status codes, pointers, enumerations.                                   *)
(***************************************************************************)
DC_STATUS_SUCCESS == "SUCCESS"
DC_STATUS_UNSUPPORTED == "UNSUPPORTED"
DC_STATUS_INVALIDARGS == "INVALIDARGS"
DC_STATUS_IO == "IO"
DC_STATUS_NOMEMORY == "NOMEMORY"

NULL == "NULL"

DC_DIVEMODE_FREEDIVE == 0
DC_DIVEMODE_GAUGE == 1
DC_DIVEMODE_OC == 2

DC_SAMPLE_TIME == "TIME"
DC_SAMPLE_DEPTH == "DEPTH"
DC_SAMPLE_TEMPERATURE == "TEMPERATURE"

\* The fact types get_field is asked for.  TEMPERATURE_SURFACE stands for
\* the types the switch of get_field sends to its default branch.
FieldTypes ==
    {"DIVETIME", "MAXDEPTH", "AVGDEPTH", "GASMIX_COUNT", "GASMIX", "SALINITY",
     "ATMOSPHERIC", "TEMPERATURE_SURFACE", "TANK_COUNT", "TANK", "DIVEMODE",
     "STRING"}

\* capacity of the indexed gas-mix storage of the cache
MAXGASES == 16

\* largest value of a little-endian 16-bit header or record field
MaxWord == 65535

HeaderSize == 256
SurfacePressure == 1013

(***************************************************************************)
(* Input buffers.  A buffer is its length, the header bytes the decoder    *)
(* reads (a function from byte offset to byte) and the body bytes.         *)
(***************************************************************************)
HeaderOffsets == {2, 3, 6, 7, 8, 9, 10, 11, 12, 13, 22, 23, 26}

Lo(v) == v % 256
Hi(v) == v \div 256

\* header bytes from the decoded quantities they encode
MakeHeader(act, o2, year, day, month, minute, hour, dur, maxp, ivl) ==
    [k \in HeaderOffsets |->
        CASE k = 2 -> act
          [] k = 3 -> o2
          [] k = 6 -> Lo(year)
          [] k = 7 -> Hi(year)
          [] k = 8 -> day
          [] k = 9 -> month
          [] k = 10 -> minute
          [] k = 11 -> hour
          [] k = 12 -> Lo(dur)
          [] k = 13 -> Hi(dur)
          [] k = 22 -> Lo(maxp)
          [] k = 23 -> Hi(maxp)
          [] k = 26 -> ivl]

\* activity bytes: 1 is an unrecognised activity
Activities == {1, 2, 3, 4}

\* the remaining header fields (oxygen, year, day, month, minute, hour,
\* duration, maximum pressure, sample interval), two variants
HeaderVariants ==
    { <<32, 2020, 17, 5, 42, 9, 10, 2013, 20>>,
      <<21, 2019, 1, 12, 0, 23, 65535, 1000, 0>> }

Headers ==
    { MakeHeader(a, v[1], v[2], v[3], v[4], v[5], v[6], v[7], v[8], v[9]) :
        a \in Activities, v \in HeaderVariants }

\* body bytes: records {temp 205, pressure 1113}, {temp 210, pressure 1213},
\* {temp 300, pressure 1000}, repeated
TapePattern == <<205, 0, 89, 4, 210, 0, 189, 4, 44, 1, 232, 3>>
TapeByte(j) == TapePattern[((j - 1) % Len(TapePattern)) + 1]
Bodies == { [j \in 1..L |-> TapeByte(j)] : L \in 0..MaxBodyLen }

LongBuffers ==
    { [size |-> HeaderSize + Len(b), hdr |-> h, body |-> b] :
        h \in Headers, b \in Bodies }

\* buffers shorter than the header: no byte of them is ever read
ShortSizes == {HeaderSize - 1}
ShortBuffers == { [size |-> s, hdr |-> <<>>, body |-> <<>>] : s \in ShortSizes }

Buffers == LongBuffers \cup ShortBuffers

\* data[k]
Byte(data, k) ==
    IF k < HeaderSize THEN data.hdr[k] ELSE data.body[k - HeaderSize + 1]

(***************************************************************************)
(* The field cache: a presence mask and one slot per fact.                 *)
(***************************************************************************)
ZeroGasmix == [helium |-> 0, oxygen |-> 0, nitrogen |-> 0]

\* the cache with every byte equal to the residue r; ResidueCache(m, 0)
\* with m = {} is the cache after memset(&cache, 0, sizeof(cache))
ResidueCache(m, r) ==
    [initialized |-> m,
     DIVETIME |-> r, MAXDEPTH |-> r, AVGDEPTH |-> r, ATMOSPHERIC |-> r,
     DIVEMODE |-> r, GASMIX_COUNT |-> r, SALINITY |-> r,
     GASMIX |-> [i \in 0..(MAXGASES - 1) |-> [helium |-> r, oxygen |-> r, nitrogen |-> r]],
     STRING_COUNT |-> r]

ZeroCache == ResidueCache({}, 0)

\* the presence words an unzeroed cache may hold: no bit, one bit, every bit
GarbageMasks == {{}, {"DIVETIME"}, {"GASMIX"}, FieldTypes}

\* the byte values unzeroed heap memory may hold
Residues == {0, 1}

DC_ASSIGN_FIELD(cache, name, value) ==
    [cache EXCEPT !.initialized = @ \cup {name}, ![name] = value]

DC_ASSIGN_IDX(cache, name, idx, value) ==
    [cache EXCEPT !.initialized = @ \cup {name}, ![name][idx] = value]

\* out-parameter left untouched
NoValue == "NONE"

DC_FIELD_VALUE(cache, NAME) ==
    IF NAME \notin cache.initialized
    THEN [status |-> DC_STATUS_UNSUPPORTED, value |-> NoValue]
    ELSE [status |-> DC_STATUS_SUCCESS, value |-> cache[NAME]]

\* the declared count of the array-typed fact NAME
DeclaredCount(cache, NAME) ==
    IF NAME = "GASMIX" THEN cache.GASMIX_COUNT ELSE cache.STRING_COUNT

DC_FIELD_INDEX(cache, NAME, idx) ==
    IF NAME \notin cache.initialized
    THEN [status |-> DC_STATUS_UNSUPPORTED, value |-> NoValue]
    ELSE IF idx >= DeclaredCount(cache, NAME)
    THEN [status |-> DC_STATUS_INVALIDARGS, value |-> NoValue]
    ELSE [status |-> DC_STATUS_SUCCESS, value |-> cache[NAME][idx]]

dc_field_get_string(cache, idx) ==
    IF idx >= cache.STRING_COUNT
    THEN [status |-> DC_STATUS_INVALIDARGS, value |-> NoValue]
    ELSE [status |-> DC_STATUS_SUCCESS, value |-> "string"]

(***************************************************************************)
(* Unit conversions.                                                       *)
(***************************************************************************)
\* (q, r) with q * 196133 + r the value: multiply the value by 5, k times
RECURSIVE Times5(_, _, _)
Times5(q, r, k) ==
    IF k = 0 THEN q
    ELSE Times5(5 * q + ((5 * r) \div 196133), (5 * r) % 196133, k - 1)

\* mbar / (1.024 * 0.980665) / 100.0 metres, in millimetres rounded down:
\* mbar * 10^9 / 100420096 = mbar * 5^9 / 196133
MbarToMillimetres(mbar) == Times5(0, mbar, 9)

\* variant: the surface pressure is not subtracted
pressure_to_depth_Absolute(mbar) ==
    IF mbar < SurfacePressure THEN 0
    ELSE MbarToMillimetres(mbar)

pressure_to_depth(mbar) ==
    IF mbar < SurfacePressure THEN 0
    ELSE MbarToMillimetres(mbar - SurfacePressure)

\* data[3] / 100.0, in thousandths
OxygenFraction(percent) == percent * 10

\* temp / 10.0 degrees, in thousandths of a degree
Temperature(temp) == temp * 100

(***************************************************************************)
(* deepsix_parser.c                                                        *)
(***************************************************************************)
deepsix_parser_vtable ==
    [type |-> "DC_FAMILY_DEEPSIX",
     set_data |-> "deepsix_parser_set_data",
     datetime |-> "deepsix_parser_get_datetime",
     field |-> "deepsix_parser_get_field",
     samples_foreach |-> "deepsix_parser_samples_foreach",
     destroy |-> NULL]

\* variant: the memset of the cache is missing
ResetDecodeState_KeepsCache(p) == [p EXCEPT !.callback = NULL]

\* lines 114-116: forget the stored callback, zero the cache
ResetDecodeState(p) == [p EXCEPT !.callback = NULL, !.cache = ZeroCache]

\* variant: the scuba case declares two gas mixes
ActivitySwitch_TwoMixesDeclared(p, data, divetime) ==
    LET gasmix == [ZeroGasmix EXCEPT !.oxygen = OxygenFraction(Byte(data, 3))]
    IN CASE Byte(data, 2) = 2 ->
              [divetime |-> divetime * 60,
               parser |-> [p EXCEPT !.cache =
                   DC_ASSIGN_FIELD(
                       DC_ASSIGN_FIELD(
                           DC_ASSIGN_IDX(@, "GASMIX", 0, gasmix),
                           "GASMIX_COUNT", 2),
                       "DIVEMODE", DC_DIVEMODE_OC)]]
         [] Byte(data, 2) = 3 ->
              [divetime |-> divetime * 60,
               parser |-> [p EXCEPT !.cache =
                   DC_ASSIGN_FIELD(@, "DIVEMODE", DC_DIVEMODE_GAUGE)]]
         [] Byte(data, 2) = 4 ->
              [divetime |-> divetime,
               parser |-> [p EXCEPT !.cache =
                               DC_ASSIGN_FIELD(@, "DIVEMODE", DC_DIVEMODE_FREEDIVE),
                           !.sample_interval = 1]]
         [] OTHER ->
              [divetime |-> divetime, parser |-> p]

\* variant: the gauge case leaves the dive time in minutes
ActivitySwitch_GaugeInMinutes(p, data, divetime) ==
    LET gasmix == [ZeroGasmix EXCEPT !.oxygen = OxygenFraction(Byte(data, 3))]
    IN CASE Byte(data, 2) = 2 ->
              [divetime |-> divetime * 60,
               parser |-> [p EXCEPT !.cache =
                   DC_ASSIGN_FIELD(
                       DC_ASSIGN_FIELD(
                           DC_ASSIGN_IDX(@, "GASMIX", 0, gasmix),
                           "GASMIX_COUNT", 1),
                       "DIVEMODE", DC_DIVEMODE_OC)]]
         [] Byte(data, 2) = 3 ->
              [divetime |-> divetime,
               parser |-> [p EXCEPT !.cache =
                   DC_ASSIGN_FIELD(@, "DIVEMODE", DC_DIVEMODE_GAUGE)]]
         [] Byte(data, 2) = 4 ->
              [divetime |-> divetime,
               parser |-> [p EXCEPT !.cache =
                               DC_ASSIGN_FIELD(@, "DIVEMODE", DC_DIVEMODE_FREEDIVE),
                           !.sample_interval = 1]]
         [] OTHER ->
              [divetime |-> divetime, parser |-> p]

\* variant: the gauge case assigns the freedive mode
ActivitySwitch_GaugeAsFreedive(p, data, divetime) ==
    LET gasmix == [ZeroGasmix EXCEPT !.oxygen = OxygenFraction(Byte(data, 3))]
    IN CASE Byte(data, 2) = 2 ->
              [divetime |-> divetime * 60,
               parser |-> [p EXCEPT !.cache =
                   DC_ASSIGN_FIELD(
                       DC_ASSIGN_FIELD(
                           DC_ASSIGN_IDX(@, "GASMIX", 0, gasmix),
                           "GASMIX_COUNT", 1),
                       "DIVEMODE", DC_DIVEMODE_OC)]]
         [] Byte(data, 2) = 3 ->
              [divetime |-> divetime * 60,
               parser |-> [p EXCEPT !.cache =
                   DC_ASSIGN_FIELD(@, "DIVEMODE", DC_DIVEMODE_FREEDIVE)]]
         [] Byte(data, 2) = 4 ->
              [divetime |-> divetime,
               parser |-> [p EXCEPT !.cache =
                               DC_ASSIGN_FIELD(@, "DIVEMODE", DC_DIVEMODE_FREEDIVE),
                           !.sample_interval = 1]]
         [] OTHER ->
              [divetime |-> divetime, parser |-> p]

\* lines 126-148: the switch on the activity byte; yields the instance and
\* the local divetime
ActivitySwitch(p, data, divetime) ==
    LET gasmix == [ZeroGasmix EXCEPT !.oxygen = OxygenFraction(Byte(data, 3))]
    IN CASE Byte(data, 2) = 2 ->
              [divetime |-> divetime * 60,
               parser |-> [p EXCEPT !.cache =
                   DC_ASSIGN_FIELD(
                       DC_ASSIGN_FIELD(
                           DC_ASSIGN_IDX(@, "GASMIX", 0, gasmix),
                           "GASMIX_COUNT", 1),
                       "DIVEMODE", DC_DIVEMODE_OC)]]
         [] Byte(data, 2) = 3 ->
              [divetime |-> divetime * 60,
               parser |-> [p EXCEPT !.cache =
                   DC_ASSIGN_FIELD(@, "DIVEMODE", DC_DIVEMODE_GAUGE)]]
         [] Byte(data, 2) = 4 ->
              [divetime |-> divetime,
               parser |-> [p EXCEPT !.cache =
                               DC_ASSIGN_FIELD(@, "DIVEMODE", DC_DIVEMODE_FREEDIVE),
                           !.sample_interval = 1]]
         [] OTHER ->
              [divetime |-> divetime, parser |-> p]

\* variant: the length test rejects a buffer of exactly the header size
deepsix_parser_set_data_OffByOne(p, data, size) ==
    IF size <= HeaderSize
    THEN [status |-> DC_STATUS_IO, parser |-> p]
    ELSE LET sw == ActivitySwitch(ResetDecodeState(p), data,
                                  Byte(data, 12) + 256 * Byte(data, 13))
             maxpressure == Byte(data, 22) + 256 * Byte(data, 23)
         IN [status |-> DC_STATUS_SUCCESS,
             parser |-> [sw.parser EXCEPT
                 !.sample_interval = Byte(data, 26),
                 !.cache = DC_ASSIGN_FIELD(
                               DC_ASSIGN_FIELD(@, "DIVETIME", sw.divetime),
                               "MAXDEPTH", pressure_to_depth(maxpressure))]]

deepsix_parser_set_data(p, data, size) ==
    IF size < HeaderSize
    THEN [status |-> DC_STATUS_IO, parser |-> p]
    ELSE LET sw == ActivitySwitch(ResetDecodeState(p), data,
                                  Byte(data, 12) + 256 * Byte(data, 13))
             maxpressure == Byte(data, 22) + 256 * Byte(data, 23)
         IN [status |-> DC_STATUS_SUCCESS,
             parser |-> [sw.parser EXCEPT
                 !.sample_interval = Byte(data, 26),
                 !.cache = DC_ASSIGN_FIELD(
                               DC_ASSIGN_FIELD(@, "DIVETIME", sw.divetime),
                               "MAXDEPTH", pressure_to_depth(maxpressure))]]

NoDatetime == "NONE"

\* variant: day and month are read from each other's byte
deepsix_parser_get_datetime_MonthFirst(p) ==
    IF p.size < HeaderSize
    THEN [status |-> DC_STATUS_IO, datetime |-> NoDatetime]
    ELSE [status |-> DC_STATUS_SUCCESS,
          datetime |-> [year |-> Byte(p.data, 6) + Byte(p.data, 7) * 256,
                        day |-> Byte(p.data, 9),
                        month |-> Byte(p.data, 8),
                        minute |-> Byte(p.data, 10),
                        hour |-> Byte(p.data, 11),
                        second |-> 0,
                        timezone |-> "DC_TIMEZONE_NONE"]]

deepsix_parser_get_datetime(p) ==
    IF p.size < HeaderSize
    THEN [status |-> DC_STATUS_IO, datetime |-> NoDatetime]
    ELSE [status |-> DC_STATUS_SUCCESS,
          datetime |-> [year |-> Byte(p.data, 6) + Byte(p.data, 7) * 256,
                        day |-> Byte(p.data, 8),
                        month |-> Byte(p.data, 9),
                        minute |-> Byte(p.data, 10),
                        hour |-> Byte(p.data, 11),
                        second |-> 0,
                        timezone |-> "DC_TIMEZONE_NONE"]]

deepsix_parser_get_field(p, type, flags, value) ==
    IF value = NULL
    THEN [status |-> DC_STATUS_INVALIDARGS, value |-> NoValue]
    ELSE IF type \notin p.cache.initialized
    THEN [status |-> DC_STATUS_UNSUPPORTED, value |-> NoValue]
    ELSE CASE type = "DIVETIME" -> DC_FIELD_VALUE(p.cache, "DIVETIME")
           [] type = "MAXDEPTH" -> DC_FIELD_VALUE(p.cache, "MAXDEPTH")
           [] type = "AVGDEPTH" -> DC_FIELD_VALUE(p.cache, "AVGDEPTH")
           [] type \in {"GASMIX_COUNT", "TANK_COUNT"} ->
                  DC_FIELD_VALUE(p.cache, "GASMIX_COUNT")
           [] type = "GASMIX" ->
                  IF flags >= MAXGASES
                  THEN [status |-> DC_STATUS_UNSUPPORTED, value |-> NoValue]
                  ELSE DC_FIELD_INDEX(p.cache, "GASMIX", flags)
           [] type = "SALINITY" -> DC_FIELD_VALUE(p.cache, "SALINITY")
           [] type = "ATMOSPHERIC" -> DC_FIELD_VALUE(p.cache, "ATMOSPHERIC")
           [] type = "DIVEMODE" -> DC_FIELD_VALUE(p.cache, "DIVEMODE")
           [] type = "TANK" -> [status |-> DC_STATUS_UNSUPPORTED, value |-> NoValue]
           [] type = "STRING" -> dc_field_get_string(p.cache, flags)
           [] OTHER -> [status |-> DC_STATUS_UNSUPPORTED, value |-> NoValue]

\* variant: the depth is delivered before the time
SampleRecord_DepthFirst(data, sample_interval, callback, i) ==
    LET at == HeaderSize + 4 * i
        temp == Byte(data, at) + 256 * Byte(data, at + 1)
        pressure == Byte(data, at + 2) + 256 * Byte(data, at + 3)
    IN IF callback = NULL THEN <<>>
       ELSE << [type |-> DC_SAMPLE_DEPTH, value |-> pressure_to_depth(pressure)],
               [type |-> DC_SAMPLE_TIME, value |-> (i + 1) * sample_interval],
               [type |-> DC_SAMPLE_TEMPERATURE, value |-> Temperature(temp)] >>

\* lines 264-276: one iteration of the loop, the deliveries of record i
SampleRecord(data, sample_interval, callback, i) ==
    LET at == HeaderSize + 4 * i
        temp == Byte(data, at) + 256 * Byte(data, at + 1)
        pressure == Byte(data, at + 2) + 256 * Byte(data, at + 3)
    IN IF callback = NULL THEN <<>>
       ELSE << [type |-> DC_SAMPLE_TIME, value |-> (i + 1) * sample_interval],
               [type |-> DC_SAMPLE_DEPTH, value |-> pressure_to_depth(pressure)],
               [type |-> DC_SAMPLE_TEMPERATURE, value |-> Temperature(temp)] >>

\* variant: the loop stops one record early
RECURSIVE SampleLoop_StopsEarly(_, _, _, _, _)
SampleLoop_StopsEarly(data, sample_interval, callback, i, len) ==
    IF i + 1 < len \div 4
    THEN SampleRecord(data, sample_interval, callback, i)
             \o SampleLoop_StopsEarly(data, sample_interval, callback, i + 1, len)
    ELSE <<>>

\* line 263: for (i = 0; i < len/4; i++), from iteration i on
RECURSIVE SampleLoop(_, _, _, _, _)
SampleLoop(data, sample_interval, callback, i, len) ==
    IF i < len \div 4
    THEN SampleRecord(data, sample_interval, callback, i)
             \o SampleLoop(data, sample_interval, callback, i + 1, len)
    ELSE <<>>

\* variant: the length test before the loop is missing
deepsix_parser_samples_foreach_NoLengthTest(p, callback) ==
    [status |-> DC_STATUS_SUCCESS,
     parser |-> [p EXCEPT !.callback = callback],
     deliveries |-> SampleLoop(p.data, p.sample_interval, callback, 0,
                               p.size - HeaderSize)]

\* variant: the stream also caches the time of the last record as the
\* dive time
deepsix_parser_samples_foreach_CachesDivetime(p, callback) ==
    LET stored == [p EXCEPT !.callback = callback]
        len == p.size - HeaderSize
    IN IF p.size < HeaderSize
       THEN [status |-> DC_STATUS_IO, parser |-> stored, deliveries |-> <<>>]
       ELSE [status |-> DC_STATUS_SUCCESS,
             parser |-> [stored EXCEPT !.cache =
                 DC_ASSIGN_FIELD(@, "DIVETIME", (len \div 4) * p.sample_interval)],
             deliveries |-> SampleLoop(p.data, p.sample_interval, callback, 0, len)]

deepsix_parser_samples_foreach(p, callback) ==
    LET stored == [p EXCEPT !.callback = callback]
    IN IF p.size < HeaderSize
       THEN [status |-> DC_STATUS_IO, parser |-> stored, deliveries |-> <<>>]
       ELSE [status |-> DC_STATUS_SUCCESS, parser |-> stored,
             deliveries |-> SampleLoop(p.data, p.sample_interval, callback, 0,
                                       p.size - HeaderSize)]

(***************************************************************************)
(* parser.c                                                                *)
(***************************************************************************)
\* base.data of an instance that was given no buffer
NullData == [size |-> 0, hdr |-> <<>>, body |-> <<>>]

\* the instance malloc returns, its base class initialised; the rest of the
\* struct holds whatever the heap held: presence word m, residue r
dc_parser_allocate(vtable, m, r) ==
    [vtable |-> vtable,
     data |-> NullData,
     size |-> 0,
     callback |-> IF r = 0 THEN NULL ELSE "wild",
     sample_interval |-> r,
     cache |-> ResidueCache(m, r)]

\* a null dc_parser_t pointer
NullParser == <<>>
IsNullParser(p) == DOMAIN p = {}

\* what an implementation of another family returns and writes: its source
\* is not part of this development, so it is left uninterpreted
Foreign == "FOREIGN"

\* variant: the buffer and its length are recorded after the family decode,
\* and only when it succeeds
dc_parser_set_data_RecordsOnSuccess(p, data, size) ==
    IF IsNullParser(p) THEN [status |-> DC_STATUS_UNSUPPORTED, parser |-> p]
    ELSE IF p.vtable.set_data = NULL
    THEN [status |-> DC_STATUS_UNSUPPORTED, parser |-> p]
    ELSE IF p.vtable.set_data = "deepsix_parser_set_data"
    THEN LET r == deepsix_parser_set_data(p, data, size)
         IN IF r.status = DC_STATUS_SUCCESS
            THEN [status |-> r.status,
                  parser |-> [r.parser EXCEPT !.data = data, !.size = size]]
            ELSE r
    ELSE [status |-> Foreign, parser |-> [p EXCEPT !.data = data, !.size = size]]

dc_parser_set_data(p, data, size) ==
    IF IsNullParser(p) THEN [status |-> DC_STATUS_UNSUPPORTED, parser |-> p]
    ELSE IF p.vtable.set_data = NULL
    THEN [status |-> DC_STATUS_UNSUPPORTED, parser |-> p]
    ELSE IF p.vtable.set_data = "deepsix_parser_set_data"
    THEN deepsix_parser_set_data([p EXCEPT !.data = data, !.size = size], data, size)
    ELSE [status |-> Foreign, parser |-> [p EXCEPT !.data = data, !.size = size]]

dc_parser_get_datetime(p) ==
    IF IsNullParser(p) THEN [status |-> DC_STATUS_UNSUPPORTED, datetime |-> NoDatetime]
    ELSE IF p.vtable.datetime = NULL
    THEN [status |-> DC_STATUS_UNSUPPORTED, datetime |-> NoDatetime]
    ELSE IF p.vtable.datetime = "deepsix_parser_get_datetime"
    THEN deepsix_parser_get_datetime(p)
    ELSE [status |-> Foreign, datetime |-> Foreign]

dc_parser_get_field(p, type, flags, value) ==
    IF IsNullParser(p) THEN [status |-> DC_STATUS_UNSUPPORTED, value |-> NoValue]
    ELSE IF p.vtable.field = NULL
    THEN [status |-> DC_STATUS_UNSUPPORTED, value |-> NoValue]
    ELSE IF p.vtable.field = "deepsix_parser_get_field"
    THEN deepsix_parser_get_field(p, type, flags, value)
    ELSE [status |-> Foreign, value |-> Foreign]

dc_parser_samples_foreach(p, callback) ==
    IF IsNullParser(p)
    THEN [status |-> DC_STATUS_UNSUPPORTED, parser |-> p, deliveries |-> <<>>]
    ELSE IF p.vtable.samples_foreach = NULL
    THEN [status |-> DC_STATUS_UNSUPPORTED, parser |-> p, deliveries |-> <<>>]
    ELSE IF p.vtable.samples_foreach = "deepsix_parser_samples_foreach"
    THEN deepsix_parser_samples_foreach(p, callback)
    ELSE [status |-> Foreign, parser |-> p, deliveries |-> Foreign]

(***************************************************************************)
(* The state machine: one instance and its caller.                         *)
(*   parser      the instance                                              *)
(*   result      the last call: its name, arguments, status and outputs    *)
(*   decoded     <<b>> when b is the buffer of the most recent set_data    *)
(*               call that succeeded, <<>> when none has                   *)
(*   afterScuba  whether that call replaced an earlier decode of a scuba   *)
(*               dive (activity byte 2)                                    *)
(* decoded and afterScuba are history variables: no operation reads them.  *)
(***************************************************************************)
\* get_field index arguments: around the declared count and the capacity
Indices == {0, 1, MAXGASES}

\* the flags argument is the index of an array-typed fact; a query for a
\* scalar fact passes 0
FlagsOf(type) == IF type \in {"GASMIX", "TANK", "STRING"} THEN Indices ELSE {0}

Callbacks == {NULL, "cb"}
ValuePointers == {NULL, "out"}

Init ==
    /\ \E m \in GarbageMasks, r \in Residues :
           parser = dc_parser_allocate(deepsix_parser_vtable, m, r)
    /\ result = [op |-> "create", status |-> DC_STATUS_SUCCESS]
    /\ decoded = <<>>
    /\ afterScuba = FALSE

SetData ==
    \E data \in Buffers :
        \E r \in {dc_parser_set_data(parser, data, data.size)} :
           /\ parser' = r.parser
           /\ result' = [op |-> "set_data", status |-> r.status, size |-> data.size]
           /\ decoded' = IF r.status = DC_STATUS_SUCCESS THEN <<data>> ELSE decoded
           /\ afterScuba' = IF r.status = DC_STATUS_SUCCESS
                         THEN decoded # <<>> /\ Byte(decoded[1], 2) = 2
                         ELSE afterScuba

GetDatetime ==
    \E r \in {dc_parser_get_datetime(parser)} :
       /\ result' = [op |-> "get_datetime", status |-> r.status,
                     datetime |-> r.datetime]
       /\ UNCHANGED <<parser, decoded, afterScuba>>

GetField ==
    \E type \in FieldTypes, value \in ValuePointers :
      \E flags \in FlagsOf(type) :
        \E r \in {dc_parser_get_field(parser, type, flags, value)} :
           /\ result' = [op |-> "get_field", status |-> r.status, type |-> type,
                         flags |-> flags, pointer |-> value, value |-> r.value]
           /\ UNCHANGED <<parser, decoded, afterScuba>>

SamplesForeach ==
    \E callback \in Callbacks :
        \E r \in {dc_parser_samples_foreach(parser, callback)} :
           /\ parser' = r.parser
           /\ result' = [op |-> "samples_foreach", status |-> r.status,
                         callback |-> callback, deliveries |-> r.deliveries]
           /\ UNCHANGED <<decoded, afterScuba>>

Next == SetData \/ GetDatetime \/ GetField \/ SamplesForeach

Spec == Init /\ [][Next]_vars

(***************************************************************************)
(* Vocabulary of the properties.                                           *)
(***************************************************************************)
\* status of get_field(type, flags) on the instance as it stands, the
\* caller supplying an out-parameter
FieldStatus(type, flags) == dc_parser_get_field(parser, type, flags, "out").status
FieldValue(type, flags) == dc_parser_get_field(parser, type, flags, "out").value

\* little-endian 16-bit value at offset k
LE16(data, k) == Byte(data, k) + 256 * Byte(data, k + 1)

\* the fact types a successful decode of data assigns, by its activity byte
AssignedBy(data) ==
    {"DIVETIME", "MAXDEPTH"}
        \cup (IF Byte(data, 2) \in {2, 3, 4} THEN {"DIVEMODE"} ELSE {})
        \cup (IF Byte(data, 2) = 2 THEN {"GASMIX", "GASMIX_COUNT"} ELSE {})

\* the fact types assigned by the most recent successful set_data
Assigned == IF decoded = <<>> THEN {} ELSE AssignedBy(decoded[1])

SetDataFailed == result.op = "set_data" /\ result.status # DC_STATUS_SUCCESS
SetDataSucceeded == result.op = "set_data" /\ result.status = DC_STATUS_SUCCESS
Streamed == result.op = "samples_foreach"

\* number of whole records in the body of the buffer the instance holds
Records == (parser.size - HeaderSize) \div 4

\* the time deliveries of the last foreach_sample, in order
RECURSIVE TimesOf(_)
TimesOf(ds) ==
    IF ds = <<>> THEN <<>>
    ELSE (IF Head(ds).type = DC_SAMPLE_TIME THEN <<Head(ds).value>> ELSE <<>>)
             \o TimesOf(Tail(ds))

(***************************************************************************)
(* C1.  After a set_data call that fails (length < 256), get_field fails   *)
(* unsupported for every fact type, whatever was done to the instance      *)
(* before: the cache is zeroed, never partially populated.                 *)
(***************************************************************************)
C1_FailedSetDataLeavesCacheZeroed ==
    SetDataFailed =>
        \A t \in FieldTypes : \A i \in FlagsOf(t) :
            FieldStatus(t, i) = DC_STATUS_UNSUPPORTED

(***************************************************************************)
(* C2.  Presence invariant: in every reachable state, get_field fails      *)
(* unsupported for every fact type that the most recent successful         *)
(* set_data did not assign.                                                *)
(***************************************************************************)
C2_PresenceInvariant ==
    \A t \in FieldTypes \ Assigned : \A i \in FlagsOf(t) :
        FieldStatus(t, i) = DC_STATUS_UNSUPPORTED

(***************************************************************************)
(* C3.  After a scuba decode (gas-mix count 1), get_field(GASMIX, i)       *)
(* succeeds for i = 0 and fails invalid-argument for every i >= 1.         *)
(***************************************************************************)
ScubaDecoded == SetDataSucceeded /\ Byte(parser.data, 2) = 2

C3_GasmixIndexBeyondCount ==
    ScubaDecoded =>
        \A i \in Indices :
            FieldStatus("GASMIX", i) =
                IF i = 0 THEN DC_STATUS_SUCCESS ELSE DC_STATUS_INVALIDARGS

(***************************************************************************)
(* C4.  Stream cardinality and truncation: on a buffer of 256 + L bytes,   *)
(* foreach_sample with a callback returns success and makes exactly        *)
(* 3 * floor(L/4) deliveries; the time delivery of record n is             *)
(* n * header byte 26; trailing bytes short of a record are dropped.       *)
(***************************************************************************)
C4_StreamCardinality ==
    (Streamed /\ parser.size >= HeaderSize /\ result.callback # NULL) =>
        /\ result.status = DC_STATUS_SUCCESS
        /\ Len(result.deliveries) = 3 * Records
        /\ \A n \in 1..Records :
               result.deliveries[3 * (n - 1) + 1] =
                   [type |-> DC_SAMPLE_TIME, value |-> n * Byte(parser.data, 26)]

\* two whole records and a trailing byte were streamed to a callback
C4_Witness ==
    /\ Streamed
    /\ result.callback # NULL
    /\ parser.size = HeaderSize + 9
    /\ Len(result.deliveries) = 6
    /\ Byte(parser.data, 26) = 20

(***************************************************************************)
(* C5.  Within one foreach_sample call every time delivery is strictly     *)
(* greater than the previous one, for every header and body.               *)
(***************************************************************************)
C5_StrictlyIncreasingTimes ==
    Streamed =>
        \A a, b \in 1..Len(TimesOf(result.deliveries)) :
            a < b => TimesOf(result.deliveries)[a] < TimesOf(result.deliveries)[b]

(***************************************************************************)
(* C6.  Each body record yields exactly three deliveries, in the order     *)
(* time, depth, temperature, all three from that record; the deliveries of *)
(* record n come before those of record n + 1.                             *)
(***************************************************************************)
C6_ThreeOrderedDeliveriesPerRecord ==
    (Streamed /\ result.status = DC_STATUS_SUCCESS) =>
        /\ Len(result.deliveries) % 3 = 0
        /\ \A n \in 0..((Len(result.deliveries) \div 3) - 1) :
               /\ result.deliveries[3 * n + 1] =
                      [type |-> DC_SAMPLE_TIME,
                       value |-> (n + 1) * parser.sample_interval]
               /\ result.deliveries[3 * n + 2] =
                      [type |-> DC_SAMPLE_DEPTH,
                       value |-> pressure_to_depth(
                                     LE16(parser.data, HeaderSize + 4 * n + 2))]
               /\ result.deliveries[3 * n + 3] =
                      [type |-> DC_SAMPLE_TEMPERATURE,
                       value |-> Temperature(LE16(parser.data, HeaderSize + 4 * n))]

\* two records were streamed: 20 s, 0.995 m, 20.5 C, then 40 s, 1.991 m, 21.0 C
C6_Witness ==
    /\ Streamed
    /\ Len(result.deliveries) = 6
    /\ result.deliveries[1].value = 20
    /\ result.deliveries[2].value = 995
    /\ result.deliveries[3].value = 20500
    /\ result.deliveries[4].value = 40
    /\ result.deliveries[5].value = 1991
    /\ result.deliveries[6].value = 21000

(***************************************************************************)
(* C7.  set_data fails io-error whenever length < 256 and succeeds for     *)
(* every buffer of length >= 256, whatever its contents.                   *)
(***************************************************************************)
C7_SetDataStatusByLength ==
    result.op = "set_data" =>
        result.status =
            IF result.size < 256 THEN DC_STATUS_IO ELSE DC_STATUS_SUCCESS

\* a buffer of exactly 256 bytes with an unrecognised activity was accepted
C7_Witness ==
    /\ SetDataSucceeded
    /\ result.size = 256
    /\ Byte(parser.data, 2) = 1

(***************************************************************************)
(* C8.  foreach_sample fails io-error, with no delivery, on an instance on *)
(* which no set_data call has succeeded yet.                               *)
(***************************************************************************)
C8_ForeachBeforeDecodeFails ==
    (Streamed /\ decoded = <<>>) =>
        /\ result.status = DC_STATUS_IO
        /\ result.deliveries = <<>>

\* foreach_sample was called with a callback after only a failed set_data
C8_Witness ==
    /\ Streamed
    /\ decoded = <<>>
    /\ parser.size = HeaderSize - 1
    /\ result.callback # NULL

(***************************************************************************)
(* C9.  A successful set_data clears and rebuilds the cache: the present   *)
(* facts and their values are those of a decode of the same buffer by a    *)
(* zeroed instance, with nothing carried over from an earlier decode.      *)
(***************************************************************************)
\* the instance a zeroed instance becomes by decoding data
DecodedFromBlank(data) ==
    dc_parser_set_data(dc_parser_allocate(deepsix_parser_vtable, {}, 0),
                       data, data.size).parser

C9_SetDataRebuildsCache ==
    SetDataSucceeded =>
        /\ parser.cache = DecodedFromBlank(parser.data).cache
        /\ parser.cache.initialized = AssignedBy(parser.data)
        /\ \A t \in FieldTypes \ AssignedBy(parser.data) : \A i \in FlagsOf(t) :
               FieldStatus(t, i) = DC_STATUS_UNSUPPORTED

\* a gauge dive was decoded by an instance that had decoded a scuba dive
C9_Witness ==
    /\ SetDataSucceeded
    /\ afterScuba
    /\ decoded # <<>>
    /\ Byte(parser.data, 2) = 3
    /\ FieldStatus("GASMIX", 0) = DC_STATUS_UNSUPPORTED
    /\ FieldStatus("GASMIX_COUNT", 0) = DC_STATUS_UNSUPPORTED

(***************************************************************************)
(* C10.  Activity mapping: byte 2 = 2 gives one gas mix of oxygen fraction *)
(* byte 3 / 100, gas-mix count 1 and dive mode open-circuit; 3 gives       *)
(* gauge; 4 gives freedive; any other value is not fatal, leaves dive      *)
(* mode, gas mix and gas-mix count unset and still assigns duration and    *)
(* maximum depth.                                                          *)
(***************************************************************************)
C10_ActivityMapping ==
    (result.op = "set_data" /\ result.size >= HeaderSize) =>
        /\ result.status = DC_STATUS_SUCCESS
        /\ FieldStatus("DIVETIME", 0) = DC_STATUS_SUCCESS
        /\ FieldStatus("MAXDEPTH", 0) = DC_STATUS_SUCCESS
        /\ Byte(parser.data, 2) = 2 =>
               /\ FieldStatus("GASMIX", 0) = DC_STATUS_SUCCESS
               /\ FieldValue("GASMIX", 0).oxygen * 100 = Byte(parser.data, 3) * 1000
               /\ FieldStatus("GASMIX_COUNT", 0) = DC_STATUS_SUCCESS
               /\ FieldValue("GASMIX_COUNT", 0) = 1
               /\ FieldStatus("DIVEMODE", 0) = DC_STATUS_SUCCESS
               /\ FieldValue("DIVEMODE", 0) = DC_DIVEMODE_OC
        /\ Byte(parser.data, 2) = 3 =>
               /\ FieldStatus("DIVEMODE", 0) = DC_STATUS_SUCCESS
               /\ FieldValue("DIVEMODE", 0) = DC_DIVEMODE_GAUGE
        /\ Byte(parser.data, 2) = 4 =>
               /\ FieldStatus("DIVEMODE", 0) = DC_STATUS_SUCCESS
               /\ FieldValue("DIVEMODE", 0) = DC_DIVEMODE_FREEDIVE
        /\ Byte(parser.data, 2) \notin {2, 3, 4} =>
               /\ FieldStatus("DIVEMODE", 0) = DC_STATUS_UNSUPPORTED
               /\ FieldStatus("GASMIX", 0) = DC_STATUS_UNSUPPORTED
               /\ FieldStatus("GASMIX_COUNT", 0) = DC_STATUS_UNSUPPORTED

\* a scuba dive with header byte 3 = 32 was decoded: oxygen fraction 0.32
C10_Witness ==
    /\ SetDataSucceeded
    /\ Byte(parser.data, 2) = 2
    /\ Byte(parser.data, 3) = 32
    /\ FieldValue("GASMIX", 0).oxygen = 320
    /\ FieldValue("DIVEMODE", 0) = DC_DIVEMODE_OC

(***************************************************************************)
(* A second specification: one instance decodes and streams, in turn, a    *)
(* buffer for every activity byte and every value v of the 16-bit fields,  *)
(* v being the raw duration, the maximum pressure and the pressure of the  *)
(* one body record.                                                        *)
(***************************************************************************)
WordBuffer(act, v) ==
    [size |-> HeaderSize + 4,
     hdr |-> MakeHeader(act, 32, 2020, 17, 5, 42, 9, v, v, 20),
     body |-> <<205, 0, Lo(v), Hi(v)>>]

\* the buffer after the one the instance holds, <<>> after the last
NextWordBuffer ==
    IF decoded = <<>> THEN <<WordBuffer(1, 0)>>
    ELSE IF Byte(parser.data, 2) < 4
    THEN <<WordBuffer(Byte(parser.data, 2) + 1, LE16(parser.data, 22))>>
    ELSE IF LE16(parser.data, 22) < MaxWord
    THEN <<WordBuffer(1, LE16(parser.data, 22) + 1)>>
    ELSE <<>>

DecodeWord ==
    /\ result.op \in {"create", "samples_foreach"}
    /\ NextWordBuffer # <<>>
    /\ \E data \in {NextWordBuffer[1]} :
         \E r \in {dc_parser_set_data(parser, data, data.size)} :
           /\ parser' = r.parser
           /\ result' = [op |-> "set_data", status |-> r.status, size |-> data.size]
           /\ decoded' = IF r.status = DC_STATUS_SUCCESS THEN <<data>> ELSE decoded
           /\ afterScuba' = IF r.status = DC_STATUS_SUCCESS
                            THEN decoded # <<>> /\ Byte(decoded[1], 2) = 2
                            ELSE afterScuba

StreamWord ==
    /\ result.op = "set_data"
    /\ \E r \in {dc_parser_samples_foreach(parser, "cb")} :
           /\ parser' = r.parser
           /\ result' = [op |-> "samples_foreach", status |-> r.status,
                         callback |-> "cb", deliveries |-> r.deliveries]
           /\ UNCHANGED <<decoded, afterScuba>>

NextWords == DecodeWord \/ StreamWord

SpecWords == Init /\ [][NextWords]_vars

(***************************************************************************)
(* C11.  Duration normalisation: the cached dive time is the 16-bit value  *)
(* at header bytes 12-13 times 60 for scuba (2) and gauge (3), and that    *)
(* value unchanged for freedive (4); for every raw value 0..65535 it is    *)
(* below 2^31, so the multiplication cannot overflow.                      *)
(***************************************************************************)
C11_DurationNormalisation ==
    (SetDataSucceeded /\ Byte(parser.data, 2) \in {2, 3, 4}) =>
        /\ FieldStatus("DIVETIME", 0) = DC_STATUS_SUCCESS
        /\ FieldValue("DIVETIME", 0) =
               IF Byte(parser.data, 2) \in {2, 3}
               THEN 60 * LE16(parser.data, 12)
               ELSE LE16(parser.data, 12)
        /\ FieldValue("DIVETIME", 0) >= 0
        /\ FieldValue("DIVETIME", 0) <= 2147483647

\* a gauge dive of 65535 minutes was decoded: 3932100 seconds
C11_Witness ==
    /\ SetDataSucceeded
    /\ Byte(parser.data, 2) = 3
    /\ LE16(parser.data, 12) = MaxWord
    /\ FieldValue("DIVETIME", 0) = 3932100

(***************************************************************************)
(* C12.  Determinism: once an instance was given a buffer, what it answers *)
(* to get_field, get_datetime and foreach_sample is a function of that     *)
(* buffer alone; it equals what any other instance answers that was        *)
(* created afresh and given the same buffer, whatever happened to either   *)
(* instance before.                                                        *)
(***************************************************************************)
FreshlyGiven(m, r, data) ==
    dc_parser_set_data(dc_parser_allocate(deepsix_parser_vtable, m, r),
                       data, data.size).parser

\* two results of one operation: the same status and, on success, the same
\* output
SameResult(a, b, out(_)) ==
    /\ a.status = b.status
    /\ a.status = DC_STATUS_SUCCESS => out(a) = out(b)

SameAnswers(p, q) ==
    /\ \A type \in FieldTypes : \A flags \in FlagsOf(type) :
           SameResult(dc_parser_get_field(p, type, flags, "out"),
                      dc_parser_get_field(q, type, flags, "out"),
                      LAMBDA a : a.value)
    /\ SameResult(dc_parser_get_datetime(p), dc_parser_get_datetime(q),
                  LAMBDA a : a.datetime)
    /\ dc_parser_samples_foreach(p, "cb").status =
           dc_parser_samples_foreach(q, "cb").status
    /\ dc_parser_samples_foreach(p, "cb").deliveries =
           dc_parser_samples_foreach(q, "cb").deliveries

C12_Determinism ==
    parser.data # NullData =>
        \A m \in GarbageMasks : \A r \in Residues :
            SameAnswers(parser, FreshlyGiven(m, r, parser.data))

\* the part of C12 that holds: after a buffer of 256 bytes or more
C12_DeterminismAfterSuccess ==
    (parser.data # NullData /\ parser.size >= HeaderSize) =>
        \A m \in GarbageMasks : \A r \in Residues :
            SameAnswers(parser, FreshlyGiven(m, r, parser.data))

(***************************************************************************)
(* C13.  Idempotent queries: every get_field, get_datetime and             *)
(* foreach_sample call leaves the field cache (presence bits and values)   *)
(* as it was, so every get_field(T, i) answers after the call what it      *)
(* answered before it; and a get_field call that repeats the previous      *)
(* call returns the same status and value.                                 *)
(***************************************************************************)
IsQuery(r) == r.op \in {"get_field", "get_datetime", "samples_foreach"}

RepeatsGetField(r, s) ==
    /\ r.op = "get_field" /\ s.op = "get_field"
    /\ r.type = s.type /\ r.flags = s.flags /\ r.pointer = s.pointer

QueryKeepsCache ==
    IsQuery(result') =>
        /\ parser'.cache = parser.cache
        /\ \A type \in FieldTypes : \A flags \in FlagsOf(type) :
               dc_parser_get_field(parser', type, flags, "out") =
                   dc_parser_get_field(parser, type, flags, "out")
        /\ RepeatsGetField(result, result') =>
               /\ result'.status = result.status
               /\ result'.status = DC_STATUS_SUCCESS =>
                      result'.value = result.value

C13_IdempotentQueries == [][QueryKeepsCache]_vars

\* a stream of at least two records was delivered from a decoded scuba dive
\* and the facts of the decode are still cached
C13_Witness ==
    /\ result.op = "samples_foreach"
    /\ Len(result.deliveries) >= 6
    /\ decoded # <<>> /\ parser.data = decoded[1]
    /\ Byte(parser.data, 2) = 2
    /\ parser.cache.initialized = AssignedBy(parser.data)
    /\ FieldValue("DIVETIME", 0) = 60 * LE16(parser.data, 12)

(***************************************************************************)
(* C14.  Count consistency: after every successful set_data the gas-mix    *)
(* count is present iff the gas-mix array is present (both exactly for a   *)
(* scuba dive); when present the count is 1, and entry 0 is the only entry *)
(* of the array that was written: it holds the oxygen fraction of header   *)
(* byte 3, entries 1..15 are still zero, and get_field answers for index 0 *)
(* only.                                                                   *)
(***************************************************************************)
\* the entries of the gas-mix array that differ from the zeroed cache
WrittenMixes == {i \in 0..(MAXGASES - 1) : parser.cache.GASMIX[i] # ZeroGasmix}

C14_CountConsistency ==
    SetDataSucceeded =>
        /\ ("GASMIX_COUNT" \in parser.cache.initialized)
               <=> ("GASMIX" \in parser.cache.initialized)
        /\ ("GASMIX" \in parser.cache.initialized) <=> (Byte(parser.data, 2) = 2)
        /\ "GASMIX" \in parser.cache.initialized =>
               /\ FieldStatus("GASMIX_COUNT", 0) = DC_STATUS_SUCCESS
               /\ FieldValue("GASMIX_COUNT", 0) = 1
               /\ WrittenMixes = {0}
               /\ FieldValue("GASMIX_COUNT", 0) = Cardinality(WrittenMixes)
               /\ parser.cache.GASMIX[0] =
                      [ZeroGasmix EXCEPT !.oxygen = OxygenFraction(Byte(parser.data, 3))]
               /\ FieldStatus("GASMIX", 0) = DC_STATUS_SUCCESS
               /\ FieldStatus("GASMIX", 1) # DC_STATUS_SUCCESS
        /\ "GASMIX" \notin parser.cache.initialized => WrittenMixes = {}

\* a scuba dive was decoded over an instance that held another scuba dive
C14_Witness ==
    /\ SetDataSucceeded
    /\ afterScuba
    /\ Byte(parser.data, 2) = 2
    /\ FieldValue("GASMIX_COUNT", 0) = 1
    /\ FieldValue("GASMIX", 0).oxygen = 320

(***************************************************************************)
(* parser.c: the factory and dc_parser_destroy.                            *)
(***************************************************************************)
REACTPROWHITE == 17236

\* the families the switch of dc_parser_new_internal has a case for
SupportedFamilies ==
    {"DC_FAMILY_SUUNTO_SOLUTION", "DC_FAMILY_SUUNTO_EON", "DC_FAMILY_SUUNTO_VYPER",
     "DC_FAMILY_SUUNTO_VYPER2", "DC_FAMILY_SUUNTO_D9", "DC_FAMILY_SUUNTO_EONSTEEL",
     "DC_FAMILY_UWATEC_ALADIN", "DC_FAMILY_UWATEC_MEMOMOUSE", "DC_FAMILY_UWATEC_SMART",
     "DC_FAMILY_REEFNET_SENSUS", "DC_FAMILY_REEFNET_SENSUSPRO",
     "DC_FAMILY_REEFNET_SENSUSULTRA", "DC_FAMILY_OCEANIC_VTPRO",
     "DC_FAMILY_OCEANIC_VEO250", "DC_FAMILY_OCEANIC_ATOM2", "DC_FAMILY_MARES_NEMO",
     "DC_FAMILY_MARES_PUCK", "DC_FAMILY_MARES_DARWIN", "DC_FAMILY_MARES_ICONHD",
     "DC_FAMILY_HW_OSTC", "DC_FAMILY_HW_FROG", "DC_FAMILY_HW_OSTC3",
     "DC_FAMILY_CRESSI_EDY", "DC_FAMILY_ZEAGLE_N2ITION3", "DC_FAMILY_CRESSI_LEONARDO",
     "DC_FAMILY_CRESSI_GOA", "DC_FAMILY_ATOMICS_COBALT",
     "DC_FAMILY_SHEARWATER_PREDATOR", "DC_FAMILY_SHEARWATER_PETREL",
     "DC_FAMILY_DIVERITE_NITEKQ", "DC_FAMILY_CITIZEN_AQUALAND",
     "DC_FAMILY_DIVESYSTEM_IDIVE", "DC_FAMILY_COCHRAN_COMMANDER",
     "DC_FAMILY_TECDIVING_DIVECOMPUTEREU", "DC_FAMILY_MCLEAN_EXTREME",
     "DC_FAMILY_LIQUIVISION_LYNX", "DC_FAMILY_GARMIN", "DC_FAMILY_DEEPBLU",
     "DC_FAMILY_OCEANS_S1", "DC_FAMILY_DEEPSIX"}

\* family values the switch has no case for: the null family and a value
\* outside the enumeration
UnknownFamilies == {"DC_FAMILY_NULL", "DC_FAMILY_OUT_OF_RANGE"}

Families == SupportedFamilies \cup UnknownFamilies

\* no constructor was called
NoCall == [create |-> NULL, args |-> <<>>]

Call(create, args) == [create |-> create, args |-> args]

\* the switch (family): the constructor call of the case taken, NoCall for
\* the default case
FamilySwitch(family, model, serial, devtime, systime) ==
    CASE family = "DC_FAMILY_SUUNTO_SOLUTION" -> Call("suunto_solution_parser_create", <<>>)
      [] family = "DC_FAMILY_SUUNTO_EON" -> Call("suunto_eon_parser_create", <<0>>)
      [] family = "DC_FAMILY_SUUNTO_VYPER" ->
             IF model = 1
             THEN Call("suunto_eon_parser_create", <<1>>)
             ELSE Call("suunto_vyper_parser_create", <<>>)
      [] family \in {"DC_FAMILY_SUUNTO_VYPER2", "DC_FAMILY_SUUNTO_D9"} ->
             Call("suunto_d9_parser_create", <<model, serial>>)
      [] family = "DC_FAMILY_SUUNTO_EONSTEEL" ->
             Call("suunto_eonsteel_parser_create", <<model>>)
      [] family \in {"DC_FAMILY_UWATEC_ALADIN", "DC_FAMILY_UWATEC_MEMOMOUSE"} ->
             Call("uwatec_memomouse_parser_create", <<devtime, systime>>)
      [] family = "DC_FAMILY_UWATEC_SMART" ->
             Call("uwatec_smart_parser_create", <<model, devtime, systime>>)
      [] family = "DC_FAMILY_REEFNET_SENSUS" ->
             Call("reefnet_sensus_parser_create", <<devtime, systime>>)
      [] family = "DC_FAMILY_REEFNET_SENSUSPRO" ->
             Call("reefnet_sensuspro_parser_create", <<devtime, systime>>)
      [] family = "DC_FAMILY_REEFNET_SENSUSULTRA" ->
             Call("reefnet_sensusultra_parser_create", <<devtime, systime>>)
      [] family = "DC_FAMILY_OCEANIC_VTPRO" ->
             Call("oceanic_vtpro_parser_create", <<model>>)
      [] family = "DC_FAMILY_OCEANIC_VEO250" ->
             Call("oceanic_veo250_parser_create", <<model>>)
      [] family = "DC_FAMILY_OCEANIC_ATOM2" ->
             IF model = REACTPROWHITE
             THEN Call("oceanic_veo250_parser_create", <<model>>)
             ELSE Call("oceanic_atom2_parser_create", <<model, serial>>)
      [] family \in {"DC_FAMILY_MARES_NEMO", "DC_FAMILY_MARES_PUCK"} ->
             Call("mares_nemo_parser_create", <<model>>)
      [] family = "DC_FAMILY_MARES_DARWIN" -> Call("mares_darwin_parser_create", <<model>>)
      [] family = "DC_FAMILY_MARES_ICONHD" -> Call("mares_iconhd_parser_create", <<model>>)
      [] family = "DC_FAMILY_HW_OSTC" -> Call("hw_ostc_parser_create", <<serial>>)
      [] family \in {"DC_FAMILY_HW_FROG", "DC_FAMILY_HW_OSTC3"} ->
             Call("hw_ostc3_parser_create", <<serial, model>>)
      [] family \in {"DC_FAMILY_CRESSI_EDY", "DC_FAMILY_ZEAGLE_N2ITION3"} ->
             Call("cressi_edy_parser_create", <<model>>)
      [] family = "DC_FAMILY_CRESSI_LEONARDO" ->
             Call("cressi_leonardo_parser_create", <<model>>)
      [] family = "DC_FAMILY_CRESSI_GOA" -> Call("cressi_goa_parser_create", <<model>>)
      [] family = "DC_FAMILY_ATOMICS_COBALT" -> Call("atomics_cobalt_parser_create", <<>>)
      [] family = "DC_FAMILY_SHEARWATER_PREDATOR" ->
             Call("shearwater_predator_parser_create", <<model, serial>>)
      [] family = "DC_FAMILY_SHEARWATER_PETREL" ->
             Call("shearwater_petrel_parser_create", <<model, serial>>)
      [] family = "DC_FAMILY_DIVERITE_NITEKQ" -> Call("diverite_nitekq_parser_create", <<>>)
      [] family = "DC_FAMILY_CITIZEN_AQUALAND" -> Call("citizen_aqualand_parser_create", <<>>)
      [] family = "DC_FAMILY_DIVESYSTEM_IDIVE" ->
             Call("divesystem_idive_parser_create", <<model>>)
      [] family = "DC_FAMILY_COCHRAN_COMMANDER" ->
             Call("cochran_commander_parser_create", <<model>>)
      [] family = "DC_FAMILY_TECDIVING_DIVECOMPUTEREU" ->
             Call("tecdiving_divecomputereu_parser_create", <<>>)
      [] family = "DC_FAMILY_MCLEAN_EXTREME" -> Call("mclean_extreme_parser_create", <<>>)
      [] family = "DC_FAMILY_LIQUIVISION_LYNX" ->
             Call("liquivision_lynx_parser_create", <<model>>)
      [] family = "DC_FAMILY_GARMIN" -> Call("garmin_parser_create", <<>>)
      [] family = "DC_FAMILY_DEEPBLU" -> Call("deepblu_parser_create", <<>>)
      [] family = "DC_FAMILY_OCEANS_S1" -> Call("oceans_s1_parser_create", <<>>)
      [] family = "DC_FAMILY_DEEPSIX" -> Call("deepsix_parser_create", <<>>)
      [] OTHER -> NoCall

\* allocated is what dc_parser_allocate returned: an instance, or the null
\* pointer when malloc failed
deepsix_parser_create(out, allocated) ==
    IF out = NULL
    THEN [status |-> DC_STATUS_INVALIDARGS, parser |-> NullParser]
    ELSE IF IsNullParser(allocated)
    THEN [status |-> DC_STATUS_NOMEMORY, parser |-> NullParser]
    ELSE [status |-> DC_STATUS_SUCCESS, parser |-> allocated]

\* variant: the default case breaks out of the switch
dc_parser_new_internal_DefaultBreaks(out, family, model, serial, devtime, systime, allocated, made) ==
    LET call == FamilySwitch(family, model, serial, devtime, systime)
        rc == IF call = NoCall
              THEN [status |-> DC_STATUS_SUCCESS, parser |-> NullParser]
              ELSE IF call.create = "deepsix_parser_create"
              THEN deepsix_parser_create("parser", allocated)
              ELSE made
    IN IF out = NULL
       THEN [status |-> DC_STATUS_INVALIDARGS, called |-> NoCall,
             written |-> FALSE, parser |-> NullParser]
       ELSE [status |-> rc.status, called |-> call,
             written |-> TRUE, parser |-> rc.parser]

\* made is what the constructor of another family returned (its status and
\* the instance it stored).  The result tells which constructor was called
\* with which arguments, whether *out was written, and with what.
dc_parser_new_internal(out, family, model, serial, devtime, systime, allocated, made) ==
    LET call == FamilySwitch(family, model, serial, devtime, systime)
        rc == IF call.create = "deepsix_parser_create"
              THEN deepsix_parser_create("parser", allocated)
              ELSE made
    IN IF out = NULL
       THEN [status |-> DC_STATUS_INVALIDARGS, called |-> NoCall,
             written |-> FALSE, parser |-> NullParser]
       ELSE IF call = NoCall
       THEN [status |-> DC_STATUS_INVALIDARGS, called |-> NoCall,
             written |-> FALSE, parser |-> NullParser]
       ELSE [status |-> rc.status, called |-> call,
             written |-> TRUE, parser |-> rc.parser]

\* an instance after free(): the caller's pointer dangles
Released == [released |-> TRUE]
IsReleased(p) == "released" \in DOMAIN p

\* variant: a table without a destroy hook is reported as unsupported and
\* the instance is kept
dc_parser_destroy_NeedsHook(p) ==
    IF IsNullParser(p) THEN [status |-> DC_STATUS_SUCCESS, parser |-> p]
    ELSE IF p.vtable.destroy = NULL
    THEN [status |-> DC_STATUS_UNSUPPORTED, parser |-> p]
    ELSE [status |-> Foreign, parser |-> Released]

dc_parser_destroy(p) ==
    IF IsNullParser(p) THEN [status |-> DC_STATUS_SUCCESS, parser |-> p]
    ELSE [status |-> IF p.vtable.destroy # NULL THEN Foreign ELSE DC_STATUS_SUCCESS,
          parser |-> Released]

dc_parser_get_type(p) ==
    IF IsNullParser(p) THEN "DC_FAMILY_NULL" ELSE p.vtable.type

(***************************************************************************)
(* A third specification: the life of the caller's instance pointer.  The  *)
(* factory fills it, the contract operations are called through it, and    *)
(* dc_parser_destroy releases it.  parser is the pointer: null, an         *)
(* instance, or dangling after the release.  Instances of the other        *)
(* families carry a dispatch table whose entries are present or absent.    *)
(***************************************************************************)
Models == {0, 1, REACTPROWHITE}
Serials == {0, 1}
Devtimes == {0, 1}
OutSlots == {NULL, "out"}

\* what dc_parser_allocate can return to deepsix_parser_create
Allocations ==
    {NullParser} \cup
    { dc_parser_allocate(deepsix_parser_vtable, m, r) :
          m \in GarbageMasks, r \in Residues }

\* dispatch tables of another family: every entry present, every entry
\* absent, and the four operations absent with a destroy hook present
ForeignTables(family) ==
    { [type |-> family, set_data |-> e[1], datetime |-> e[1], field |-> e[1],
       samples_foreach |-> e[1], destroy |-> e[2]] :
          e \in {<<Foreign, Foreign>>, <<NULL, NULL>>, <<NULL, Foreign>>} }

\* what the constructor of another family can return
ForeignMade(family) ==
    {[status |-> DC_STATUS_NOMEMORY, parser |-> NullParser]} \cup
    { [status |-> DC_STATUS_SUCCESS,
       parser |-> [vtable |-> t, data |-> NullData, size |-> 0]] :
          t \in ForeignTables(family) }

LifecycleBuffers == ShortBuffers \cup {WordBuffer(2, 2013)}

InitLifecycle ==
    /\ parser = NullParser
    /\ result = [op |-> "start", status |-> DC_STATUS_SUCCESS]
    /\ decoded = <<>>
    /\ afterScuba = FALSE

NewParser ==
    /\ IsNullParser(parser) \/ IsReleased(parser)
    /\ \E out \in OutSlots, family \in Families, model \in Models,
          serial \in Serials, devtime \in Devtimes :
         \E allocated \in (IF family = "DC_FAMILY_DEEPSIX"
                           THEN Allocations ELSE {NullParser}) :
           \E made \in (IF family = "DC_FAMILY_DEEPSIX"
                        THEN {[status |-> DC_STATUS_NOMEMORY, parser |-> NullParser]}
                        ELSE ForeignMade(family)) :
             \E r \in {dc_parser_new_internal(out, family, model, serial,
                                              devtime, 0, allocated, made)} :
               /\ parser' = IF r.written THEN r.parser ELSE parser
               /\ result' = [op |-> "new", status |-> r.status, out |-> out,
                             family |-> family, model |-> model,
                             serial |-> serial, devtime |-> devtime,
                             called |-> r.called, written |-> r.written]
               /\ decoded' = <<>>
               /\ afterScuba' = FALSE

CallSetData ==
    /\ ~IsReleased(parser)
    /\ \E data \in LifecycleBuffers :
         \E r \in {dc_parser_set_data(parser, data, data.size)} :
           /\ parser' = r.parser
           /\ result' = [op |-> "set_data", status |-> r.status, size |-> data.size]
           /\ decoded' = IF r.status = DC_STATUS_SUCCESS THEN <<data>> ELSE decoded
           /\ afterScuba' = IF r.status = DC_STATUS_SUCCESS
                            THEN decoded # <<>> /\ Byte(decoded[1], 2) = 2
                            ELSE afterScuba

CallGetDatetime == ~IsReleased(parser) /\ GetDatetime

CallGetField == ~IsReleased(parser) /\ GetField

CallSamplesForeach == ~IsReleased(parser) /\ SamplesForeach

Destroy ==
    /\ ~IsReleased(parser)
    /\ \E r \in {dc_parser_destroy(parser)} :
           /\ parser' = r.parser
           /\ result' = [op |-> "destroy", status |-> r.status,
                         type |-> dc_parser_get_type(parser),
                         hook |-> IF IsNullParser(parser) THEN NULL
                                  ELSE parser.vtable.destroy]
           /\ decoded' = <<>>
           /\ afterScuba' = FALSE

NextLifecycle ==
    \/ NewParser
    \/ CallSetData
    \/ CallGetDatetime
    \/ CallGetField
    \/ CallSamplesForeach
    \/ Destroy

SpecLifecycle == InitLifecycle /\ [][NextLifecycle]_vars

(***************************************************************************)
(* C15.  The factory fails invalid-argument, producing no instance and     *)
(* calling no constructor, for every family outside the supported set and  *)
(* for a null output slot.  For every supported family it calls exactly    *)
(* one constructor, which the family and the model determine (serial and   *)
(* device time have no part in the choice, and the model has one only for  *)
(* the two families with a tie-break); DEEPSIX always selects              *)
(* deepsix_parser_create, whose instance carries deepsix_parser_vtable.    *)
(***************************************************************************)
\* the constructor the factory calls for the inputs of the last call, with
\* model, serial and device time replaced
ConstructorFor(model, serial, devtime) ==
    dc_parser_new_internal(result.out, result.family, model, serial, devtime, 0,
                           NullParser,
                           [status |-> DC_STATUS_NOMEMORY, parser |-> NullParser]
                          ).called.create

TieBreakFamilies == {"DC_FAMILY_SUUNTO_VYPER", "DC_FAMILY_OCEANIC_ATOM2"}

C15_FactorySelection ==
    result.op = "new" =>
        IF result.out = NULL \/ result.family \notin SupportedFamilies
        THEN /\ result.status = DC_STATUS_INVALIDARGS
             /\ result.called = NoCall
             /\ ~result.written
             /\ IsNullParser(parser) \/ IsReleased(parser)
        ELSE /\ result.called.create # NULL
             /\ result.written
             /\ result.status # DC_STATUS_INVALIDARGS
             /\ \A serial \in Serials, devtime \in Devtimes :
                    ConstructorFor(result.model, serial, devtime) = result.called.create
             /\ result.family \notin TieBreakFamilies =>
                    \A model \in Models :
                        ConstructorFor(model, result.serial, result.devtime) =
                            result.called.create
             /\ result.family = "DC_FAMILY_DEEPSIX" =>
                    /\ result.called.create = "deepsix_parser_create"
                    /\ result.status = DC_STATUS_SUCCESS =>
                           parser.vtable = deepsix_parser_vtable
             /\ result.status = DC_STATUS_SUCCESS <=> ~IsNullParser(parser)

\* the factory made a DEEPSIX instance for a model that is a tie-break in
\* another family
C15_Witness ==
    /\ result.op = "new"
    /\ result.family = "DC_FAMILY_DEEPSIX"
    /\ result.model = REACTPROWHITE
    /\ result.status = DC_STATUS_SUCCESS
    /\ result.called.create = "deepsix_parser_create"
    /\ dc_parser_get_type(parser) = "DC_FAMILY_DEEPSIX"

(***************************************************************************)
(* C16.  An operation of set_data, get_datetime, get_field and             *)
(* foreach_sample whose entry is absent from the dispatch table of the     *)
(* instance, or that is called on a null instance, reports unsupported     *)
(* and does nothing: the instance is as it was (set_data has not recorded  *)
(* the buffer, foreach_sample has not stored the callback) and no output   *)
(* is written.  dc_parser_destroy on an instance without a destroy hook    *)
(* (the exemplar's case) releases the instance and returns success; on a   *)
(* null instance it returns success and does nothing.                      *)
(***************************************************************************)
DispatchedOps == {"set_data", "get_datetime", "get_field", "samples_foreach"}

\* the dispatch table entry of a non-null instance p for operation op
Entry(p, op) ==
    CASE op = "set_data" -> p.vtable.set_data
      [] op = "get_datetime" -> p.vtable.datetime
      [] op = "get_field" -> p.vtable.field
      [] op = "samples_foreach" -> p.vtable.samples_foreach
      [] op = "destroy" -> p.vtable.destroy

Absent(p, op) == IsNullParser(p) \/ Entry(p, op) = NULL

\* the call that led to result' wrote no output
NoOutput ==
    CASE result'.op = "get_datetime" -> result'.datetime = NoDatetime
      [] result'.op = "get_field" -> result'.value = NoValue
      [] result'.op = "samples_foreach" -> result'.deliveries = <<>>
      [] OTHER -> TRUE

AbsentIsUnsupported ==
    (result'.op \in DispatchedOps /\ Absent(parser, result'.op)) =>
        /\ result'.status = DC_STATUS_UNSUPPORTED
        /\ parser' = parser
        /\ NoOutput

DestroyWithoutHook ==
    (result'.op = "destroy" /\ ~IsNullParser(parser) /\ Absent(parser, "destroy")) =>
        /\ result'.status = DC_STATUS_SUCCESS
        /\ IsReleased(parser')

DestroyOfNull ==
    (result'.op = "destroy" /\ IsNullParser(parser)) =>
        /\ result'.status = DC_STATUS_SUCCESS
        /\ parser' = parser

C16_AbsentOperations ==
    [][AbsentIsUnsupported /\ DestroyWithoutHook /\ DestroyOfNull]_vars

\* the statement as first made: every contract operation, destroy among
\* them, reports unsupported on a null instance
C16_EveryOperationOnNullUnsupported ==
    [][/\ AbsentIsUnsupported
       /\ DestroyWithoutHook
       /\ (result'.op = "destroy" /\ IsNullParser(parser)) =>
              result'.status = DC_STATUS_UNSUPPORTED]_vars

\* set_data was called on an instance whose table has no set_data entry and
\* no destroy hook: unsupported, and the buffer was not recorded
C16_Witness ==
    /\ result.op = "set_data"
    /\ result.status = DC_STATUS_UNSUPPORTED
    /\ ~IsNullParser(parser)
    /\ parser.vtable.set_data = NULL
    /\ parser.vtable.destroy = NULL
    /\ parser.data = NullData /\ parser.size = 0

(***************************************************************************)
(* C17.  Depth conversion boundary, depths in millimetres rounded down.    *)
(* For every 16-bit pressure p the cached maximum depth is 0 when          *)
(* p <= 1013 (nothing wraps around below 1013); when p > 1013 it is        *)
(* positive, exceeds the depth of p - 1 by at least 9 mm, and lies within  *)
(* 1 mm of (p - 1013) * 9.958 mm; p = 2013 gives 9.958 m.  A body record   *)
(* with the same pressure is delivered with the same depth.                *)
(***************************************************************************)
\* the pressure of the buffer the instance holds: maximum pressure of the
\* header and pressure of its one record
WordPressure == LE16(parser.data, 22)

DepthOfWord ==
    /\ FieldStatus("MAXDEPTH", 0) = DC_STATUS_SUCCESS
    /\ WordPressure <= SurfacePressure => FieldValue("MAXDEPTH", 0) = 0
    /\ WordPressure > SurfacePressure =>
           /\ FieldValue("MAXDEPTH", 0) > 0
           /\ FieldValue("MAXDEPTH", 0) >= pressure_to_depth(WordPressure - 1) + 9
           /\ FieldValue("MAXDEPTH", 0) >=
                  ((WordPressure - SurfacePressure) * 9958) \div 1000
           /\ FieldValue("MAXDEPTH", 0) <=
                  ((WordPressure - SurfacePressure) * 9959) \div 1000 + 1
    /\ result.op = "samples_foreach" =>
           /\ Len(result.deliveries) = 3
           /\ result.deliveries[2].type = DC_SAMPLE_DEPTH
           /\ result.deliveries[2].value = FieldValue("MAXDEPTH", 0)

C17_DepthConversion ==
    parser.size >= HeaderSize =>
        /\ DepthOfWord
        /\ WordPressure = 2013 => FieldValue("MAXDEPTH", 0) = 9958

\* the statement as first made: 2013 mbar gives 9.93 m within 0.01 m
C17_DepthConversionTo993 ==
    parser.size >= HeaderSize =>
        /\ DepthOfWord
        /\ WordPressure = 2013 =>
               /\ FieldValue("MAXDEPTH", 0) >= 9930 - 10
               /\ FieldValue("MAXDEPTH", 0) <= 9930 + 10

\* a record of 2013 mbar was streamed from a buffer whose maximum pressure
\* is 2013 mbar
C17_Witness ==
    /\ result.op = "samples_foreach"
    /\ parser.size >= HeaderSize
    /\ WordPressure = 2013
    /\ FieldValue("MAXDEPTH", 0) = 9958
    /\ result.deliveries[2].value = 9958

(***************************************************************************)
(* C18.  While the buffer of a successful set_data is the buffer the       *)
(* instance holds, get_datetime succeeds for every header and returns      *)
(* year = byte 6 + 256 * byte 7, day = byte 8, month = byte 9,             *)
(* minute = byte 10, hour = byte 11, second = 0, whatever the activity     *)
(* byte is and whatever the field cache holds.                             *)
(***************************************************************************)
\* the most recent set_data call succeeded
LastSetDataSucceeded == decoded # <<>> /\ parser.data = decoded[1]

C18_DatetimeFromHeader ==
    (result.op = "get_datetime" /\ LastSetDataSucceeded) =>
        /\ result.status = DC_STATUS_SUCCESS
        /\ result.datetime.year = LE16(parser.data, 6)
        /\ result.datetime.day = Byte(parser.data, 8)
        /\ result.datetime.month = Byte(parser.data, 9)
        /\ result.datetime.minute = Byte(parser.data, 10)
        /\ result.datetime.hour = Byte(parser.data, 11)
        /\ result.datetime.second = 0
        /\ \A m \in GarbageMasks : \A r \in Residues :
               dc_parser_get_datetime([parser EXCEPT !.cache = ResidueCache(m, r)])
                   = [status |-> result.status, datetime |-> result.datetime]

\* 17 May 2020, 09:42, read from a buffer whose activity byte is unrecognised
C18_Witness ==
    /\ result.op = "get_datetime"
    /\ LastSetDataSucceeded
    /\ Byte(parser.data, 2) = 1
    /\ result.status = DC_STATUS_SUCCESS
    /\ result.datetime.year = 2020 /\ result.datetime.month = 5
    /\ result.datetime.day = 17 /\ result.datetime.hour = 9
    /\ result.datetime.minute = 42 /\ result.datetime.second = 0

(***************************************************************************)
(* C19.  After any sequence of set_data, get_field, get_datetime and       *)
(* foreach_sample calls, get_datetime and foreach_sample return success    *)
(* iff the most recent set_data call was given a length of 256 or more,    *)
(* and io-error otherwise (also when there was no set_data call).  Every   *)
(* set_data call, failing or not, records its length on the instance, and  *)
(* no other call changes it, so a failed set_data revokes access to the    *)
(* dive decoded before it.                                                 *)
(***************************************************************************)
LengthGated == {"get_datetime", "samples_foreach"}

LengthRecorded ==
    /\ result'.op = "set_data" =>
           /\ parser'.size = result'.size
           /\ (result'.status = DC_STATUS_SUCCESS) <=> (result'.size >= HeaderSize)
    /\ IsQuery(result') => parser'.size = parser.size

GatedByLastLength ==
    result'.op \in LengthGated =>
        /\ result'.status =
               IF parser.size >= HeaderSize THEN DC_STATUS_SUCCESS ELSE DC_STATUS_IO
        /\ (result'.status = DC_STATUS_SUCCESS) <=>
               (decoded # <<>> /\ parser.data = decoded[1])
        /\ result.op = "set_data" =>
               ((result'.status = DC_STATUS_SUCCESS) <=> (result.size >= HeaderSize))

C19_GatedByLastSetData == [][LengthRecorded /\ GatedByLastLength]_vars

\* get_datetime or foreach_sample failed io-error on an instance that had
\* decoded a dive before a set_data with 255 bytes
C19_Witness ==
    /\ result.op \in LengthGated
    /\ result.status = DC_STATUS_IO
    /\ decoded # <<>>
    /\ parser.size = HeaderSize - 1
    /\ "DIVETIME" \in parser.cache.initialized

====
